---- MODULE Spec2Model ----
(***************************************************************************)
(* The ninjapay-vault ledger program (programs/ninjapay-vault/src/lib.rs)  *)
(* as a state machine.  One action per instruction of the program; each    *)
(* action is the whole instruction: the account validation that the        *)
(* #[derive(Accounts)] struct asks for, then the handler body, then the    *)
(* commit (or, when any step fails, the roll back of everything the        *)
(* instruction touched, as the ledger runtime does for a failed            *)
(* transaction).                                                           *)
(*                                                                         *)
(* The arcium-service (services/arcium-service/src/mpc) follows: the       *)
(* amount codec of encryption.rs as functions applied by one action per    *)
(* entry point, and MpcClient of client.rs with the cluster's answers as   *)
(* the environment's choice.  The ledger program and the service share no  *)
(* state; each has its own specification.                                  *)
(*                                                                         *)
(* u64/u128 values do not fit TLC's integers, so they are kept at full     *)
(* width as little-endian sequences of limbs in base 10^4 without leading  *)
(* zero limbs (the empty sequence is 0).                                   *)
(***************************************************************************)
EXTENDS Integers, Sequences, FiniteSets, TLC

\* ------------------------------------------------------------------------
\* Unsigned integers of arbitrary size.

\* The operations are functions, not operators: TLC evaluates the argument of a
\* function application once, before the body.

Base == 10^4
Big == Seq(0 .. Base - 1)

BigNorm[a \in Big] ==
    IF a = <<>> THEN <<>>
    ELSE IF a[Len(a)] = 0 THEN BigNorm[SubSeq(a, 1, Len(a) - 1)]
    ELSE a

BigFromNat[n \in Nat] ==
    IF n = 0 THEN <<>> ELSE <<n % Base>> \o BigFromNat[n \div Base]

Limb(a, i) == IF i <= Len(a) THEN a[i] ELSE 0
Rest(a) == IF a = <<>> THEN <<>> ELSE Tail(a)

BigAddC[a \in Big, b \in Big, c \in Nat] ==
    IF a = <<>> /\ b = <<>>
    THEN (IF c = 0 THEN <<>> ELSE <<c>>)
    ELSE <<(Limb(a, 1) + Limb(b, 1) + c) % Base>> \o
         BigAddC[Rest(a), Rest(b), (Limb(a, 1) + Limb(b, 1) + c) \div Base]

BigAdd(a, b) == BigNorm[BigAddC[a, b, 0]]

BigLtFrom[a \in Big, b \in Big, i \in Nat] ==
    IF i = 0 THEN FALSE
    ELSE IF a[i] # b[i] THEN a[i] < b[i]
    ELSE BigLtFrom[a, b, i - 1]

BigLtF[a \in Big, b \in Big] ==
    IF Len(a) # Len(b) THEN Len(a) < Len(b) ELSE BigLtFrom[a, b, Len(a)]

BigLt(a, b) == BigLtF[a, b]

BigLeq(a, b) == ~BigLtF[b, a]

\* a - b for b <= a
BigSubB[a \in Big, b \in Big, br \in Nat] ==
    IF a = <<>> THEN <<>>
    ELSE <<(a[1] - Limb(b, 1) - br + Base) % Base>> \o
         BigSubB[Tail(a), Rest(b),
                 IF a[1] - Limb(b, 1) - br < 0 THEN 1 ELSE 0]

BigSub(a, b) == BigNorm[BigSubB[a, b, 0]]

\* a * m for a machine-size m (m <= 65536 keeps every limb product in range)
BigMulC[a \in Big, m \in Nat, c \in Nat] ==
    IF a = <<>> THEN BigFromNat[c]
    ELSE <<(a[1] * m + c) % Base>> \o
         BigMulC[Tail(a), m, (a[1] * m + c) \div Base]

BigMulSmall(a, m) == BigNorm[BigMulC[a, m, 0]]

\* floor(a / d) for 0 < d <= Base, by long division from the top limb down
BigDivR[a \in Big, d \in Nat, i \in Nat, r \in Nat] ==
    IF i = 0 THEN <<>>
    ELSE BigDivR[a, d, i - 1, (r * Base + a[i]) % d] \o
         <<(r * Base + a[i]) \div d>>

BigDivSmall(a, d) == BigNorm[BigDivR[a, d, Len(a), 0]]

\* a * 2^(16 k)
BigShl16[a \in Big, k \in Nat] ==
    IF k = 0 THEN a ELSE BigShl16[BigMulSmall(a, 65536), k - 1]

Zero == <<>>
One == <<1>>
TwoTo63 == BigShl16[BigFromNat[32768], 3]
TwoTo64 == BigShl16[One, 4]
U64Max == BigSub(TwoTo64, One)
U128Max == BigSub(BigShl16[One, 8], One)
U16Max == 65535

\* x mod 2^64 for x below 2^80 (subtracting 2^64 at most 2^16 times)
BigModTwoTo64[x \in Big] ==
    IF BigLt(x, TwoTo64) THEN x ELSE BigModTwoTo64[BigSub(x, TwoTo64)]

\* ------------------------------------------------------------------------
\* Rust's checked arithmetic: an Option, None where the result does not fit.

None == [some |-> FALSE]
Some(x) == [some |-> TRUE, val |-> x]

\* u128::checked_mul(self, m) for a u16 m
CheckedMulU128(a, m) ==
    LET p == BigMulSmall(a, m)
    IN  IF BigLeq(p, U128Max) THEN Some(p) ELSE None

\* u128::checked_div(self, d)
CheckedDivU128(a, d) == IF d = 0 THEN None ELSE Some(BigDivSmall(a, d))

\* `x as u64` of a u128: the low 64 bits
AsU64(x) == BigModTwoTo64[x]

\* u64::checked_sub
CheckedSubU64(a, b) == IF BigLt(a, b) THEN None ELSE Some(BigSub(a, b))

\* the mutant of CheckedAddU64: a wrapping addition
WrappingAddU64(a, b) == Some(BigModTwoTo64[BigAdd(a, b)])

\* u64::checked_add
CheckedAddU64(a, b) ==
    LET s == BigAdd(a, b)
    IN  IF BigLeq(s, U64Max) THEN Some(s) ELSE None

\* ------------------------------------------------------------------------
\* The bounds of the model and the inputs the instructions are tried with.

\* the number of instructions in a behaviour
MaxOps == 3

Principals == {1, 2}
NoKey == 0
\* token account t belongs to principal t (one mint)
TokenAccounts == Principals
TokenOwner(t) == t
PaymentIds == {1, 2}
BatchIds == {1}

MaxFeeBasisPoints == 1000
FeeDenominator == 10000

Million == BigFromNat[1000000]
\* 39 is the largest amount whose fee at 250 basis points is 0
Amounts == {Zero, BigFromNat[39], Million, TwoTo63, U64Max}
FeeInputs == {250, MaxFeeBasisPoints, MaxFeeBasisPoints + 1, U16Max}
Commitments == {7}
Timestamps == {1700000000}
PayrollTotals == {Million, U64Max}
PayrollCounts == {0, 3}

\* the accounts a process_payment is tried with: who pays from which token
\* account, which merchant is named, and the token accounts credited
Accounts(payer, payer_ta, merchant, merchant_ta, fee_ta) ==
    [payer |-> payer, payer_token_account |-> payer_ta, merchant |-> merchant,
     merchant_token_account |-> merchant_ta, fee_token_account |-> fee_ta]
AccountChoices ==
    {Accounts(1, 1, 2, 2, 1), Accounts(2, 2, 1, 1, 1),
     Accounts(1, 1, 2, 1, 1), Accounts(2, 1, 1, 1, 2)}

\* the token balances the ledger starts with: one mint, its supply u64::MAX
InitialBalance(t) ==
    IF t = 1 THEN BigSub(U64Max, BigFromNat[975000])
    ELSE IF t = 2 THEN BigFromNat[975000]
    ELSE Zero

\* ------------------------------------------------------------------------
\* State.

VARIABLES
    vault,      \* the VaultConfig account (init = FALSE: not created yet)
    payments,   \* payment_id -> PaymentRecord account
    batches,    \* batch_id -> BatchRecord account
    balances,   \* token account -> amount
    last,       \* the outcome of the last instruction
    nops,       \* the number of instructions run
    made,       \* arcium-service: the last encrypt_amount or generate_commitment
    checked,    \* arcium-service: the last decrypt_amount or verify_commitment
    wire,       \* arcium-service: MpcClient's requests with their answers
    call        \* arcium-service: the outcome of the last MpcClient call

service == <<made, checked, wire, call>>

vars == <<vault, payments, batches, balances, last, nops, made, checked, wire,
          call>>

\* nothing called yet
NoCall == [op |-> "none"]

\* the arcium-service before its first request
InitService ==
    /\ made = NoCall
    /\ checked = NoCall
    /\ wire = <<>>
    /\ call = NoCall

NoVault ==
    [init |-> FALSE, authority |-> NoKey, fee_collector |-> NoKey,
     fee_basis_points |-> 0, total_volume |-> Zero, total_payments |-> Zero,
     bump |-> 0]

NoRecord == [exists |-> FALSE]

\* the canonical bump of a program-derived address
FindBump(seed) == 255

\* the account `init` leaves before the handler runs: allocated and zeroed
ZeroedPaymentRecord ==
    [exists |-> TRUE, payment_id |-> 0, payer |-> NoKey, merchant |-> NoKey,
     amount |-> Zero, fee |-> Zero, commitment |-> 0, timestamp |-> 0,
     bump |-> 0]

NoOp ==
    [op |-> "none", ok |-> TRUE, err |-> "", at |-> "", steps |-> <<>>,
     cpi |-> <<>>, signer |-> NoKey, key |-> NoKey, id |-> 0,
     amount |-> Zero, fee |-> None, net |-> None, arg |-> 0,
     token_accounts |-> <<>>]

Init ==
    /\ vault = NoVault
    /\ payments = [p \in PaymentIds |-> NoRecord]
    /\ batches = [b \in BatchIds |-> NoRecord]
    /\ balances = [t \in TokenAccounts |-> InitialBalance(t)]
    /\ last = NoOp
    /\ nops = 0
    /\ InitService

\* ------------------------------------------------------------------------
\* The token program's transfer, as the handler invokes it: all or nothing.

TokenTransfer(bal, from, to, authority, amount) ==
    IF BigLt(bal[from], amount)
    THEN [err |-> "InsufficientFunds", bal |-> bal]
    ELSE IF authority # TokenOwner(from)
    THEN [err |-> "OwnerMismatch", bal |-> bal]
    ELSE IF from = to \/ amount = Zero
    THEN [err |-> "", bal |-> bal]
    ELSE LET credited == CheckedAddU64(bal[to], amount)
         IN  IF ~credited.some
             THEN [err |-> "Overflow", bal |-> bal]
             ELSE [err |-> "",
                   bal |-> [bal EXCEPT ![from] = BigSub(@, amount),
                                       ![to] = credited.val]]

\* ------------------------------------------------------------------------
\* An instruction runs on a working copy of the accounts it was given:
\*   err, at   the error that ended it and the step that raised it ("": none)
\*   steps     the steps completed, in order
\*   cpi       the token transfers invoked that succeeded, in order
\*   cfg, recs, brecs, bal   the accounts as the instruction has left them
\*   fee, net  the handler's locals

Begin ==
    [err |-> "", at |-> "", steps |-> <<>>, cpi |-> <<>>, cfg |-> vault,
     recs |-> payments, brecs |-> batches, bal |-> balances,
     fee |-> None, net |-> None]

Fail(w, e, step) == [w EXCEPT !.err = e, !.at = step]

Done(w, step) == [w EXCEPT !.steps = Append(@, step)]

\* Account<'info, VaultConfig> with seeds = [b"vault_config"]: the account exists
LoadVaultConfig(w) ==
    IF w.err # "" THEN w
    ELSE IF ~w.cfg.init THEN Fail(w, "AccountNotInitialized", "load_vault_config")
    ELSE Done(w, "load_vault_config")

\* the mutant of InitPaymentRecord: init_if_needed, an existing record is reused
InitPaymentRecordIfNeeded(w, payment_id) ==
    IF w.err # "" THEN w
    ELSE Done([w EXCEPT !.recs[payment_id] = ZeroedPaymentRecord],
              "init_payment_record")

\* #[account(init, seeds = [b"payment", &payment_id], bump)]: creates the account,
\* and fails when the address is already in use
InitPaymentRecord(w, payment_id) ==
    IF w.err # "" THEN w
    ELSE IF w.recs[payment_id].exists
    THEN Fail(w, "AccountAlreadyInUse", "init_payment_record")
    ELSE Done([w EXCEPT !.recs[payment_id] = ZeroedPaymentRecord],
              "init_payment_record")

\* the mutant of ComputeFee: the product taken in 64 bits
ComputeFeeNarrow(amount, fee_basis_points) ==
    LET product == BigMulSmall(amount, fee_basis_points)
    IN  IF BigLeq(product, U64Max)
        THEN Some(BigDivSmall(product, FeeDenominator))
        ELSE None

\* lines 39-43: None where an unwrap() panics
ComputeFee(amount, fee_basis_points) ==
    LET product == CheckedMulU128(amount, fee_basis_points)
    IN  IF ~product.some THEN None
        ELSE LET quotient == CheckedDivU128(product.val, FeeDenominator)
             IN  IF ~quotient.some THEN None
                 ELSE Some(AsU64(quotient.val))

CalcFee(w, a) ==
    IF w.err # "" THEN w
    ELSE LET fee == ComputeFee(a.amount, w.cfg.fee_basis_points)
         IN  IF ~fee.some THEN Fail(w, "Panic", "fee")
             ELSE Done([w EXCEPT !.fee = fee], "fee")

CalcNet(w, a) ==
    IF w.err # "" THEN w
    ELSE LET net == CheckedSubU64(a.amount, w.fee.val)
         IN  IF ~net.some THEN Fail(w, "Panic", "net")
             ELSE Done([w EXCEPT !.net = net], "net")

Invoke(w, from, to, authority, amount, step) ==
    LET r == TokenTransfer(w.bal, from, to, authority, amount)
    IN  IF r.err # "" THEN Fail(w, r.err, step)
        ELSE Done([w EXCEPT !.bal = r.bal,
                            !.cpi = Append(@, [from |-> from, to |-> to,
                                               authority |-> authority,
                                               amount |-> amount])],
                  step)

TransferNet(w, a) ==
    IF w.err # "" THEN w
    ELSE Invoke(w, a.payer_token_account, a.merchant_token_account, a.payer,
                w.net.val, "transfer_net")

TransferFee(w, a) ==
    IF w.err # "" THEN w
    ELSE IF w.fee.val # Zero
    THEN Invoke(w, a.payer_token_account, a.fee_token_account, a.payer,
                w.fee.val, "transfer_fee")
    ELSE w

WriteRecord(w, a) ==
    IF w.err # "" THEN w
    ELSE Done([w EXCEPT !.recs[a.payment_id] =
                   [exists |-> TRUE, payment_id |-> a.payment_id,
                    payer |-> a.payer, merchant |-> a.merchant,
                    amount |-> a.amount, fee |-> w.fee.val,
                    commitment |-> a.commitment, timestamp |-> a.now,
                    bump |-> FindBump(<<"payment", a.payment_id>>)]],
              "write_record")

\* the mutant of AddVolume: the net amount counted instead of the gross
AddVolumeNet(w, a) ==
    IF w.err # "" THEN w
    ELSE LET sum == CheckedAddU64(w.cfg.total_volume, w.net.val)
         IN  IF ~sum.some THEN Fail(w, "Panic", "add_volume")
             ELSE Done([w EXCEPT !.cfg.total_volume = sum.val], "add_volume")

AddVolume(w, a) ==
    IF w.err # "" THEN w
    ELSE LET sum == CheckedAddU64(w.cfg.total_volume, a.amount)
         IN  IF ~sum.some THEN Fail(w, "Panic", "add_volume")
             ELSE Done([w EXCEPT !.cfg.total_volume = sum.val], "add_volume")

\* the mutant of AddPayments: every payment counted twice
AddPaymentsTwice(w) ==
    IF w.err # "" THEN w
    ELSE LET sum == CheckedAddU64(w.cfg.total_payments, BigFromNat[2])
         IN  IF ~sum.some THEN Fail(w, "Panic", "add_payments")
             ELSE Done([w EXCEPT !.cfg.total_payments = sum.val], "add_payments")

AddPayments(w) ==
    IF w.err # "" THEN w
    ELSE LET sum == CheckedAddU64(w.cfg.total_payments, One)
         IN  IF ~sum.some THEN Fail(w, "Panic", "add_payments")
             ELSE Done([w EXCEPT !.cfg.total_payments = sum.val], "add_payments")

\* the mutant of process_payment: the record and the totals written first
process_payment_record_first(w, a) ==
    TransferFee(TransferNet(
        AddPayments(AddVolume(WriteRecord(CalcNet(CalcFee(w, a), a), a), a)),
        a), a)

\* the mutant of process_payment: the totals checked and updated before the
\* transfers
process_payment_totals_first(w, a) ==
    WriteRecord(TransferFee(TransferNet(
        AddPayments(AddVolume(CalcNet(CalcFee(w, a), a), a)), a), a), a)

\* the mutant of process_payment: the fee transferred before the net amount
process_payment_fee_first(w, a) ==
    AddPayments(AddVolume(WriteRecord(
        TransferNet(TransferFee(CalcNet(CalcFee(w, a), a), a), a), a), a))

\* the handler body, lines 36-95
process_payment(w, a) ==
    AddPayments(AddVolume(WriteRecord(
        TransferFee(TransferNet(CalcNet(CalcFee(w, a), a), a), a), a), a))

\* the ProcessPayment accounts, then the handler
RunProcessPayment(a) ==
    process_payment(InitPaymentRecord(LoadVaultConfig(Begin), a.payment_id), a)

\* the ledger runtime: a failed instruction leaves every account as it was
Commit(w) ==
    /\ nops < MaxOps
    /\ nops' = nops + 1
    /\ IF w.err = ""
       THEN /\ vault' = w.cfg
            /\ payments' = w.recs
            /\ batches' = w.brecs
            /\ balances' = w.bal
       ELSE UNCHANGED <<vault, payments, batches, balances>>
    /\ UNCHANGED service

Outcome(op, w) ==
    [NoOp EXCEPT !.op = op, !.ok = (w.err = ""), !.err = w.err, !.at = w.at,
                 !.steps = w.steps, !.cpi = w.cpi, !.fee = w.fee,
                 !.net = w.net]

ProcessPayment ==
    \E acc \in AccountChoices, amount \in Amounts, payment_id \in PaymentIds,
       commitment \in Commitments, now \in Timestamps :
        LET a == [payer |-> acc.payer, merchant |-> acc.merchant,
                  payer_token_account |-> acc.payer_token_account,
                  merchant_token_account |-> acc.merchant_token_account,
                  fee_token_account |-> acc.fee_token_account,
                  amount |-> amount, payment_id |-> payment_id,
                  commitment |-> commitment, now |-> now]
            w == RunProcessPayment(a)
        IN  /\ Commit(w)
            /\ last' = [Outcome("process_payment", w) EXCEPT
                            !.signer = acc.payer, !.id = payment_id,
                            !.amount = amount,
                            !.token_accounts =
                                [payer |-> acc.payer_token_account,
                                 merchant |-> acc.merchant_token_account,
                                 fee |-> acc.fee_token_account]]

\* ------------------------------------------------------------------------
\* initialize

\* the mutant of InitVaultConfig: an existing VaultConfig is initialized again
InitVaultConfigIfNeeded(w) ==
    IF w.err # "" THEN w ELSE Done(w, "init_vault_config")

\* #[account(init, seeds = [b"vault_config"], bump)]
InitVaultConfig(w) ==
    IF w.err # "" THEN w
    ELSE IF w.cfg.init THEN Fail(w, "AccountAlreadyInUse", "init_vault_config")
    ELSE Done(w, "init_vault_config")

\* the handler body, lines 12-26
initialize(w, authority, fee_collector, fee_basis_points) ==
    IF w.err # "" THEN w
    ELSE Done([w EXCEPT !.cfg =
                   [init |-> TRUE, authority |-> authority,
                    fee_collector |-> fee_collector,
                    fee_basis_points |-> fee_basis_points,
                    total_volume |-> Zero, total_payments |-> Zero,
                    bump |-> FindBump(<<"vault_config">>)]],
              "write_vault_config")

Initialize ==
    \E authority \in Principals, fee_collector \in Principals,
       fee_basis_points \in FeeInputs :
        LET w == initialize(InitVaultConfig(Begin), authority, fee_collector,
                            fee_basis_points)
        IN  /\ Commit(w)
            /\ last' = [Outcome("initialize", w) EXCEPT
                            !.signer = authority, !.key = fee_collector,
                            !.arg = fee_basis_points]

\* ------------------------------------------------------------------------
\* process_payroll_batch

\* the mutant of InitBatchRecord: init_if_needed, an existing record is reused
InitBatchRecordIfNeeded(w, batch_id) ==
    IF w.err # "" THEN w
    ELSE Done([w EXCEPT !.brecs[batch_id] =
                   [exists |-> TRUE, batch_id |-> 0, company |-> NoKey,
                    total_amount |-> Zero, payment_count |-> 0,
                    timestamp |-> 0, bump |-> 0]],
              "init_batch_record")

\* #[account(init, seeds = [b"batch", &batch_id], bump)]
InitBatchRecord(w, batch_id) ==
    IF w.err # "" THEN w
    ELSE IF w.brecs[batch_id].exists
    THEN Fail(w, "AccountAlreadyInUse", "init_batch_record")
    ELSE Done([w EXCEPT !.brecs[batch_id] =
                   [exists |-> TRUE, batch_id |-> 0, company |-> NoKey,
                    total_amount |-> Zero, payment_count |-> 0,
                    timestamp |-> 0, bump |-> 0]],
              "init_batch_record")

\* the mutant of process_payroll_batch: the batch counted in the vault's volume
process_payroll_batch_counted(w, company, batch_id, total_amount, payment_count, now) ==
    IF w.err # "" THEN w
    ELSE Done([w EXCEPT !.brecs[batch_id] =
                   [exists |-> TRUE, batch_id |-> batch_id,
                    company |-> company, total_amount |-> total_amount,
                    payment_count |-> payment_count, timestamp |-> now,
                    bump |-> FindBump(<<"batch", batch_id>>)],
                        !.cfg.total_volume =
                            BigModTwoTo64[BigAdd(@, total_amount)]],
              "write_batch_record")

\* the handler body, lines 105-122
process_payroll_batch(w, company, batch_id, total_amount, payment_count, now) ==
    IF w.err # "" THEN w
    ELSE Done([w EXCEPT !.brecs[batch_id] =
                   [exists |-> TRUE, batch_id |-> batch_id,
                    company |-> company, total_amount |-> total_amount,
                    payment_count |-> payment_count, timestamp |-> now,
                    bump |-> FindBump(<<"batch", batch_id>>)]],
              "write_batch_record")

ProcessPayrollBatch ==
    \E company \in Principals, batch_id \in BatchIds,
       total_amount \in PayrollTotals, payment_count \in PayrollCounts,
       now \in Timestamps :
        LET w == process_payroll_batch(InitBatchRecord(Begin, batch_id),
                                       company, batch_id, total_amount,
                                       payment_count, now)
        IN  /\ Commit(w)
            /\ last' = [Outcome("process_payroll_batch", w) EXCEPT
                            !.signer = company, !.id = batch_id,
                            !.amount = total_amount, !.arg = payment_count]

\* ------------------------------------------------------------------------
\* update_fee and transfer_authority.  `signer` is the principal that signed
\* the transaction, `key` the account it passed as `authority`.

\* the mutant of CheckAuthority: has_one = authority left out
CheckAuthoritySignerOnly(w, signer, key) ==
    IF w.err # "" THEN w
    ELSE IF key # signer THEN Fail(w, "AccountNotSigner", "signer")
    ELSE Done(w, "has_one_authority")

\* pub authority: Signer<'info> and has_one = authority on vault_config
CheckAuthority(w, signer, key) ==
    IF w.err # "" THEN w
    ELSE IF key # signer THEN Fail(w, "AccountNotSigner", "signer")
    ELSE IF w.cfg.authority # key
    THEN Fail(w, "ConstraintHasOne", "has_one_authority")
    ELSE Done(w, "has_one_authority")

\* the mutant of update_fee: the bound off by one
update_fee_off_by_one(w, new_fee_basis_points) ==
    IF w.err # "" THEN w
    ELSE IF ~(new_fee_basis_points <= MaxFeeBasisPoints + 1)
    THEN Fail(w, "FeeTooHigh", "require_fee")
    ELSE Done([w EXCEPT !.cfg.fee_basis_points = new_fee_basis_points],
              "write_fee")

\* the handler body, lines 127-138
update_fee(w, new_fee_basis_points) ==
    IF w.err # "" THEN w
    ELSE IF ~(new_fee_basis_points <= MaxFeeBasisPoints)
    THEN Fail(w, "FeeTooHigh", "require_fee")
    ELSE Done([w EXCEPT !.cfg.fee_basis_points = new_fee_basis_points],
              "write_fee")

UpdateFee ==
    \E signer \in Principals, key \in Principals,
       new_fee_basis_points \in FeeInputs :
        LET w == update_fee(CheckAuthority(LoadVaultConfig(Begin), signer, key),
                            new_fee_basis_points)
        IN  /\ Commit(w)
            /\ last' = [Outcome("update_fee", w) EXCEPT
                            !.signer = signer, !.key = key,
                            !.arg = new_fee_basis_points]

\* the mutant of transfer_authority: the old authority stays
transfer_authority_kept(w, new_authority) ==
    IF w.err # "" THEN w ELSE Done(w, "write_authority")

\* the handler body, lines 143-152
transfer_authority(w, new_authority) ==
    IF w.err # "" THEN w
    ELSE Done([w EXCEPT !.cfg.authority = new_authority], "write_authority")

TransferAuthority ==
    \E signer \in Principals, key \in Principals,
       new_authority \in Principals :
        LET w == transfer_authority(
                     CheckAuthority(LoadVaultConfig(Begin), signer, key),
                     new_authority)
        IN  /\ Commit(w)
            /\ last' = [Outcome("transfer_authority", w) EXCEPT
                            !.signer = signer, !.key = key,
                            !.arg = new_authority]

Next ==
    \/ Initialize
    \/ ProcessPayment
    \/ ProcessPayrollBatch
    \/ UpdateFee
    \/ TransferAuthority

Spec == Init /\ [][Next]_vars

\* the vault after a long history of payments whose identifiers are not among
\* PaymentIds: the totals are near the top of their range
LongHistories ==
    {[NoVault EXCEPT !.init = TRUE, !.authority = 1, !.fee_collector = 1,
                     !.fee_basis_points = 250, !.total_volume = tv,
                     !.total_payments = tp,
                     !.bump = FindBump(<<"vault_config">>)] :
        tv \in {Million, BigSub(U64Max, Million)},
        tp \in {BigSub(U64Max, One), U64Max}}

InitLong ==
    /\ vault \in LongHistories
    /\ payments = [p \in PaymentIds |-> NoRecord]
    /\ batches = [b \in BatchIds |-> NoRecord]
    /\ balances = [t \in TokenAccounts |-> InitialBalance(t)]
    /\ last = NoOp
    /\ nops = 0
    /\ InitService

SpecLong == InitLong /\ [][Next]_vars

\* ------------------------------------------------------------------------
\* arcium-service, mpc/encryption.rs: the amount codec.
\*
\* The primitives of the sha2, hkdf and chacha20poly1305 crates are taken as
\* ideal: a digest, a derived key, a ciphertext with its tag each determine the
\* inputs they were computed from.  What is computed here is what encryption.rs
\* does around them: the byte encodings, the lengths, the order of the checks and
\* the errors.

Byte == 0 .. 255
NONCE_SIZE == 12
KEY_SIZE == 32
TAG_SIZE == 16

\* Result<T, ServiceError>
Ok(x) == [ok |-> TRUE, val |-> x]
Err(e) == [ok |-> FALSE, err |-> e]

Zeros(n) == [i \in 1 .. n |-> 0]

\* a mod d for 0 < d <= Base
BigModR[a \in Big, d \in Nat, i \in Nat, r \in Nat] ==
    IF i = 0 THEN r ELSE BigModR[a, d, i - 1, (r * Base + a[i]) % d]

BigModSmall(a, d) == BigModR[a, d, Len(a), 0]

\* the n low bytes of a, the least significant first
LeBytes[a \in Big, n \in Nat] ==
    IF n = 0 THEN <<>>
    ELSE <<BigModSmall(a, 256)>> \o LeBytes[BigDivSmall(a, 256), n - 1]

\* the number whose bytes, the least significant first, are b
LeValue[b \in Seq(Byte)] ==
    IF b = <<>> THEN Zero
    ELSE BigAdd(BigMulSmall(LeValue[Tail(b)], 256), BigFromNat[b[1]])

Reverse(s) == [i \in 1 .. Len(s) |-> s[Len(s) + 1 - i]]

\* u64::to_le_bytes
ToLeBytes(amount) == LeBytes[amount, 8]

\* the mutant of FromLeBytes: the bytes read the most significant first
FromBeBytes(bytes) == LeValue[Reverse(bytes)]

\* u64::from_le_bytes
FromLeBytes(bytes) == LeValue[bytes]

HexDigits ==
    <<"0", "1", "2", "3", "4", "5", "6", "7", "8", "9", "a", "b", "c", "d",
      "e", "f">>

HexString[b \in Seq(Byte)] ==
    IF b = <<>> THEN ""
    ELSE HexDigits[(b[1] \div 16) + 1] \o HexDigits[(b[1] % 16) + 1] \o
         HexString[Tail(b)]

\* hex::encode: two lower-case digits a byte
HexEncode(bytes) == HexString[bytes]

\* the longest message Sha256Digest below takes
MaxMessageLen == 30

\* Sha256, collision-free: the 32 bytes stand for the digest of the message
\* and are the message as SHA-256 pads it (0x80, zeros, the length), which no
\* other message of at most MaxMessageLen bytes gives
Sha256Digest(message) ==
    message \o <<128>> \o Zeros(MaxMessageLen - Len(message)) \o
    <<Len(message)>>

\* b"ninjapay-v2"
NinjapayV2 == <<110, 105, 110, 106, 97, 112, 97, 121, 45, 118, 50>>

\* Hkdf::<Sha256>::new(Some(salt), ikm): the pseudorandom key
HkdfNew(salt, ikm) == [salt |-> salt, ikm |-> ikm]

\* the most output bytes HKDF-SHA256 expands to: 255 blocks of 32
MaxOkmLen == 8160

\* hkdf.expand(info, okm): the okm.len() bytes of key material, an error when
\* more than 255 blocks are asked for
HkdfExpand(prk, info, len) ==
    IF len > MaxOkmLen THEN Err("InvalidLength")
    ELSE Ok([prk |-> prk, info |-> info, len |-> len])

\* lines 23-33
derive_user_key(master_key, user_pubkey) ==
    LET salt == Sha256Digest(NinjapayV2)
        info == "user:" \o user_pubkey
        okm == HkdfExpand(HkdfNew(salt, master_key), info, KEY_SIZE)
    IN  IF ~okm.ok THEN Err("EncryptionError") ELSE Ok(okm.val)

\* ChaCha20Poly1305::new_from_slice: a key of 32 bytes
NewFromSlice(key) == IF key.len = KEY_SIZE THEN Ok(key) ELSE Err("InvalidLength")

\* cipher.encrypt(nonce, plaintext): the ciphertext followed by its tag, which
\* determine key, nonce and plaintext; flipped: the bit of it flipped since, 0
\* for none
AeadEncrypt(key, nonce, plaintext) ==
    [key |-> key, nonce |-> nonce, plaintext |-> plaintext, flipped |-> 0]

CiphertextLen(c) == Len(c.plaintext) + TAG_SIZE

FlipBit(c, i) == [c EXCEPT !.flipped = i]

\* cipher.decrypt(nonce, ciphertext): the plaintext when the tag verifies under
\* this key and nonce
AeadDecrypt(key, nonce, c) ==
    IF c.flipped = 0 /\ c.key = key /\ c.nonce = nonce
    THEN Ok(c.plaintext)
    ELSE Err("aead::Error")

\* the mutant of generate_commitment: the amount hashed as 32 bits
generate_commitment_u32(amount, blinding_factor) ==
    HexEncode(Sha256Digest(LeBytes[amount, 4] \o blinding_factor))

\* lines 112-117
generate_commitment(amount, blinding_factor) ==
    HexEncode(Sha256Digest(ToLeBytes(amount) \o blinding_factor))

\* lines 120-123
verify_commitment(amount, blinding_factor, commitment) ==
    LET expected == generate_commitment(amount, blinding_factor)
    IN  expected = commitment

\* the mutant of encrypt_amount: the commitment blinded with zeros, not with
\* the nonce
encrypt_amount_zero_blinding(amount, master_key, user_pubkey, nonce_bytes) ==
    Ok([ciphertext |->
            AeadEncrypt(derive_user_key(master_key, user_pubkey).val,
                        nonce_bytes, ToLeBytes(amount)),
        nonce |-> nonce_bytes,
        commitment |-> generate_commitment(amount, Zeros(NONCE_SIZE))])

\* lines 36-69; nonce_bytes is what rand::thread_rng().fill gave
encrypt_amount(amount, master_key, user_pubkey, nonce_bytes) ==
    LET user_key == derive_user_key(master_key, user_pubkey)
    IN  IF ~user_key.ok THEN user_key
        ELSE LET cipher == NewFromSlice(user_key.val)
             IN  IF ~cipher.ok THEN Err("EncryptionError")
                 ELSE Ok([ciphertext |->
                              AeadEncrypt(cipher.val, nonce_bytes,
                                          ToLeBytes(amount)),
                          nonce |-> nonce_bytes,
                          commitment |->
                              generate_commitment(amount, nonce_bytes)])

\* the mutant of decrypt_amount: the length of the plaintext not checked, its
\* first bytes read as the amount
decrypt_amount_any_length(ciphertext, nonce, master_key, user_pubkey) ==
    IF Len(nonce) # NONCE_SIZE THEN Err("DecryptionError")
    ELSE LET user_key == derive_user_key(master_key, user_pubkey)
         IN  IF ~user_key.ok THEN user_key
             ELSE LET plaintext == AeadDecrypt(user_key.val, nonce, ciphertext)
                  IN  IF ~plaintext.ok THEN Err("DecryptionError")
                      ELSE Ok(FromLeBytes(
                               SubSeq(plaintext.val \o Zeros(8), 1, 8)))

\* lines 72-109
decrypt_amount(ciphertext, nonce, master_key, user_pubkey) ==
    IF Len(nonce) # NONCE_SIZE THEN Err("DecryptionError")
    ELSE LET user_key == derive_user_key(master_key, user_pubkey)
         IN  IF ~user_key.ok THEN user_key
             ELSE LET cipher == NewFromSlice(user_key.val)
                  IN  IF ~cipher.ok THEN Err("DecryptionError")
                      ELSE LET plaintext ==
                                   AeadDecrypt(cipher.val, nonce, ciphertext)
                           IN  IF ~plaintext.ok THEN Err("DecryptionError")
                               ELSE IF Len(plaintext.val) # 8
                               THEN Err("DecryptionError")
                               ELSE Ok(FromLeBytes(plaintext.val))

\* The inputs the codec is tried with.

TwoTo32 == BigShl16[One, 2]
\* 1 and 2^32 + 1 have the same low 32 bits
CodecAmounts == {Zero, One, Million, BigAdd(TwoTo32, One), U64Max}
MasterKeys == {[i \in 1 .. KEY_SIZE |-> 1], [i \in 1 .. KEY_SIZE |-> 2]}
UserPubkeys == {"alice", "bob"}
\* what the random generator may give for a nonce
Nonces == {Zeros(NONCE_SIZE), [i \in 1 .. NONCE_SIZE |-> i]}
BlindingFactors == Nonces \cup {<<>>}

\* byte i of s with its low bit flipped
FlipLowBit(s, i) ==
    [s EXCEPT ![i] = IF @ % 2 = 0 THEN @ + 1 ELSE @ - 1]

\* the nonces a decrypt_amount is tried with: the one made, the same with a bit
\* flipped, cut, or extended, and any other
NonceInputs ==
    Nonces \cup
    (IF made.op = "encrypt_amount"
     THEN LET n == made.result.val.nonce
          IN  {FlipLowBit(n, 1), SubSeq(n, 1, NONCE_SIZE - 1), n \o <<0>>}
     ELSE {})

\* plaintexts that are not the 8 bytes of an amount
ForeignPlaintexts == {<<>>, <<1, 0, 0, 0>>, Zeros(8) \o <<1>>}

\* the ciphertexts a decrypt_amount is tried with: the one made, the same with a
\* bit flipped (the first of the encrypted amount, the last of the tag), and those
\* another holder of the key made for other plaintexts
CiphertextInputs(master_key, user_pubkey, nonce) ==
    (IF made.op = "encrypt_amount"
     THEN LET c == made.result.val.ciphertext
          IN  {c} \cup {FlipBit(c, i) : i \in {1, CiphertextLen(c) * 8}}
     ELSE {})
    \cup
    (IF Len(nonce) = NONCE_SIZE
     THEN {AeadEncrypt(derive_user_key(master_key, user_pubkey).val, nonce, p) :
              p \in ForeignPlaintexts}
     ELSE {})

\* the commitments a verify_commitment is tried with
CommitmentInputs ==
    {"", "00"} \cup
    (IF made.op = "encrypt_amount" THEN {made.result.val.commitment}
     ELSE IF made.op = "generate_commitment" THEN {made.result}
     ELSE {})

Vault == <<vault, payments, batches, balances, last, nops>>

\* The functions keep no state: a behaviour makes one value and checks one.

EncryptAmount ==
    \E amount \in CodecAmounts, master_key \in MasterKeys,
       user_pubkey \in UserPubkeys, nonce_bytes \in Nonces :
        /\ made = NoCall
        /\ made' = [op |-> "encrypt_amount", amount |-> amount,
                    master_key |-> master_key, user_pubkey |-> user_pubkey,
                    result |-> encrypt_amount(amount, master_key, user_pubkey,
                                              nonce_bytes)]
        /\ UNCHANGED <<Vault, checked, wire, call>>

DecryptAmount ==
    \E master_key \in MasterKeys, user_pubkey \in UserPubkeys,
       nonce \in NonceInputs :
        \E ciphertext \in CiphertextInputs(master_key, user_pubkey, nonce) :
            /\ checked = NoCall
            /\ checked' = [op |-> "decrypt_amount", ciphertext |-> ciphertext,
                           nonce |-> nonce, master_key |-> master_key,
                           user_pubkey |-> user_pubkey,
                           result |-> decrypt_amount(ciphertext, nonce,
                                                     master_key, user_pubkey)]
            /\ UNCHANGED <<Vault, made, wire, call>>

GenerateCommitment ==
    \E amount \in CodecAmounts, blinding_factor \in BlindingFactors :
        /\ made = NoCall
        /\ made' = [op |-> "generate_commitment", amount |-> amount,
                    blinding_factor |-> blinding_factor,
                    result |-> generate_commitment(amount, blinding_factor)]
        /\ UNCHANGED <<Vault, checked, wire, call>>

VerifyCommitment ==
    \E amount \in CodecAmounts, blinding_factor \in BlindingFactors,
       commitment \in CommitmentInputs :
        /\ checked = NoCall
        /\ checked' = [op |-> "verify_commitment", amount |-> amount,
                       blinding_factor |-> blinding_factor,
                       commitment |-> commitment,
                       result |-> verify_commitment(amount, blinding_factor,
                                                    commitment)]
        /\ UNCHANGED <<Vault, made, wire, call>>

NextCodec ==
    \/ EncryptAmount
    \/ DecryptAmount
    \/ GenerateCommitment
    \/ VerifyCommitment

SpecCodec == Init /\ [][NextCodec]_vars

\* ------------------------------------------------------------------------
\* arcium-service, mpc/client.rs: MpcClient.
\*
\* The cluster and the network are the environment: each request gets one
\* answer, a transport failure or a response with a status and a body.

\* the number of MpcClient calls in a behaviour
MaxCalls == 2

\* what rand::random::<[u8; 16]>() may give; the generator is taken not to give
\* the same 16 bytes twice
RandomBlocks == {[i \in 1 .. 16 |-> 17 * k] : k \in 1 .. MaxCalls}

Drawn == {wire[i].entropy : i \in 1 .. Len(wire)}

\* the MpcClient built from the Config
cluster_address == "https://mpc.arcium.network"
program_id == "program"
callback_secret == "secret"

PaymentSettlementParams(payment_intent_id) ==
    [payment_intent_id |-> payment_intent_id, merchant_wallet |-> "merchant",
     amount |-> Million, recipient |-> "recipient", currency |-> "USDC"]

PayrollSettlementParams(batch_id) ==
    [batch_id |-> batch_id, company_wallet |-> "company",
     payments |-> <<[employee_id |-> "e1", employee_wallet |-> "w1",
                     amount |-> Million]>>,
     currency |-> "USDC"]

PaymentParamsInputs == {PaymentSettlementParams(id) : id \in {"pi_1", "pi_2"}}
PayrollParamsInputs == {PayrollSettlementParams("batch_1")}
CallbackUrls == {"https://api/callback"}

ComputationRequest(computation_id, computation_type, params) ==
    [computation_id |-> computation_id, computation_type |-> computation_type,
     params |-> params]

\* The answers of the environment.

TransportFailures ==
    {[kind |-> "error", why |-> why] : why \in {"connect", "timeout"}}

Response(status, body) == [kind |-> "response", status |-> status, body |-> body]

\* a JSON object with these fields
Json(fields) == [json |-> TRUE, fields |-> fields]
NotJson == [json |-> FALSE, text |-> "Bad Gateway"]

\* the bodies a cluster answers a request about computation_id with, when it
\* accepts it
Bodies(computation_id) ==
    {Json([computation_id |-> computation_id, status |-> "queued"]),
     Json([computation_id |-> "other", status |-> "completed",
           result |-> "ok"]),
     Json([computation_id |-> computation_id]),
     NotJson}

\* and when it does not
ErrorBodies(computation_id) ==
    {Json([computation_id |-> computation_id, status |-> "failed"]), NotJson}

Statuses == {200, 299, 300, 503}

\* StatusCode::is_success
IsSuccess(status) == 200 <= status /\ status <= 299

Answers(computation_id) ==
    TransportFailures \cup
    {Response(status, body) :
        status \in {s \in Statuses : IsSuccess(s)},
        body \in Bodies(computation_id)} \cup
    {Response(status, body) :
        status \in {s \in Statuses : ~IsSuccess(s)},
        body \in ErrorBodies(computation_id)}

\* response.json::<ComputationResponse>(): both fields are required, others
\* are ignored
ParseComputationResponse(body) ==
    IF body.json /\ {"computation_id", "status"} \subseteq DOMAIN body.fields
    THEN Ok([computation_id |-> body.fields.computation_id,
             status |-> body.fields.status])
    ELSE Err("serde")

\* lines 153-185 and 123-143: what the client makes of the answer to send()
HandleAnswer(answer) ==
    IF answer.kind = "error" THEN Err("MpcError")
    ELSE IF ~IsSuccess(answer.status) THEN Err("MpcError")
    ELSE LET result == ParseComputationResponse(answer.body)
         IN  IF ~result.ok THEN Err("MpcError") ELSE Ok(result.val)

\* the mutant of send_computation_request: the status of the response not
\* looked at
send_computation_request_any_status(request, callback_url, answer) ==
    [requests |->
        <<[method |-> "POST",
           url |-> cluster_address \o "/api/v1/computations",
           body |-> request]>>,
     result |->
        IF answer.kind = "error" THEN Err("MpcError")
        ELSE LET result == ParseComputationResponse(answer.body)
             IN  IF ~result.ok THEN Err("MpcError") ELSE Ok(result.val)]

\* lines 146-186: the requests sent and the value returned
send_computation_request(request, callback_url, answer) ==
    [requests |->
        <<[method |-> "POST",
           url |-> cluster_address \o "/api/v1/computations",
           headers |-> [content_type |-> "application/json",
                        x_program_id |-> program_id,
                        x_callback_url |-> callback_url,
                        x_callback_secret |-> callback_secret],
           body |-> request]>>,
     result |-> HandleAnswer(answer)]

\* the mutant of queue_payment_settlement: the computation_id made from the
\* payment intent
queue_payment_settlement_by_intent(params, callback_url, random, answer) ==
    send_computation_request(
        ComputationRequest("pay_" \o params.payment_intent_id,
                           "payment_settlement", params),
        callback_url, answer)

\* lines 76-92; random is what rand::random gave
queue_payment_settlement(params, callback_url, random, answer) ==
    LET computation_id == "pay_" \o HexEncode(random)
    IN  send_computation_request(
            ComputationRequest(computation_id, "payment_settlement", params),
            callback_url, answer)

\* lines 95-111
queue_payroll_settlement(params, callback_url, random, answer) ==
    LET computation_id == "payroll_" \o HexEncode(random)
    IN  send_computation_request(
            ComputationRequest(computation_id, "payroll_settlement", params),
            callback_url, answer)

\* lines 114-144
get_computation_status(computation_id, answer) ==
    [requests |->
        <<[method |-> "GET",
           url |-> cluster_address \o "/api/v1/computations/" \o
                   computation_id,
           headers |-> [x_program_id |-> program_id]]>>,
     result |-> HandleAnswer(answer)]

\* the call is done: its requests, each with the answer it got and the random
\* bytes drawn for it, are on the wire, and its outcome is the last
Exchange(op, arg, random, answer, r) ==
    /\ Len(wire) < MaxCalls
    /\ wire' = wire \o [i \in 1 .. Len(r.requests) |->
                            [request |-> r.requests[i], answer |-> answer,
                             entropy |-> random]]
    /\ call' = [op |-> op, arg |-> arg, answer |-> answer,
                result |-> r.result]
    /\ UNCHANGED <<Vault, made, checked>>

QueuePaymentSettlement ==
    \E params \in PaymentParamsInputs, callback_url \in CallbackUrls,
       random \in RandomBlocks \ Drawn :
        \E answer \in Answers("pay_" \o HexEncode(random)) :
            Exchange("queue_payment_settlement", params, random, answer,
                     queue_payment_settlement(params, callback_url, random,
                                              answer))

QueuePayrollSettlement ==
    \E params \in PayrollParamsInputs, callback_url \in CallbackUrls,
       random \in RandomBlocks \ Drawn :
        \E answer \in Answers("payroll_" \o HexEncode(random)) :
            Exchange("queue_payroll_settlement", params, random, answer,
                     queue_payroll_settlement(params, callback_url, random,
                                              answer))

\* the computation ids a caller may ask about: those it queued, and one unknown
KnownIds ==
    {wire[i].request.body.computation_id :
        i \in {j \in 1 .. Len(wire) : wire[j].request.method = "POST"}}

GetComputationStatus ==
    \E computation_id \in KnownIds \cup {"pay_unknown"} :
        \E answer \in Answers(computation_id) :
            Exchange("get_computation_status", computation_id, <<>>, answer,
                     get_computation_status(computation_id, answer))

NextClient ==
    \/ QueuePaymentSettlement
    \/ QueuePayrollSettlement
    \/ GetComputationStatus

SpecClient == Init /\ [][NextClient]_vars

\* ------------------------------------------------------------------------
\* MpcClient, a call in time.  The http_client is built with a timeout of 30
\* seconds (line 56), which runs from the start of the request to the end of the
\* response body.  A call is in flight from its send() until it returns; the
\* cluster answers when it pleases, or never.

\* Duration::from_secs(30)
TimeoutSecs == 30

\* the seconds between two looks at the clock
TickSecs == 10

\* the mutant of Expired: a timeout that covers the wait for the response only,
\* not the reading of its body
ExpiredWhileSending(stage, elapsed) ==
    stage = "sending" /\ elapsed >= TimeoutSecs

\* the request's deadline has passed
Expired(stage, elapsed) == elapsed >= TimeoutSecs

InFlight == call.op # "none" /\ ~call.returned

Pending == [kind |-> "pending"]

TimedOut == [kind |-> "error", why |-> "timeout"]

\* send(): the requests leave, the call waits for the response; what a call
\* sends does not depend on the answer it will get.  Here the wire keeps the
\* requests only, the answer stays with the call.
Send(op, arg, random, requests) ==
    /\ ~InFlight
    /\ Len(wire) < MaxCalls
    /\ wire' = wire \o [i \in 1 .. Len(requests) |->
                            [request |-> requests[i], entropy |-> random]]
    /\ call' = [op |-> op, arg |-> arg, returned |-> FALSE,
                stage |-> "sending", elapsed |-> 0, answer |-> Pending]
    /\ UNCHANGED <<Vault, made, checked>>

SendQueuePaymentSettlement ==
    \E params \in PaymentParamsInputs, callback_url \in CallbackUrls,
       random \in RandomBlocks \ Drawn :
        Send("queue_payment_settlement", params, random,
             queue_payment_settlement(params, callback_url, random, TimedOut).requests)

SendQueuePayrollSettlement ==
    \E params \in PayrollParamsInputs, callback_url \in CallbackUrls,
       random \in RandomBlocks \ Drawn :
        Send("queue_payroll_settlement", params, random,
             queue_payroll_settlement(params, callback_url, random, TimedOut).requests)

SendGetComputationStatus ==
    \E computation_id \in KnownIds \cup {"pay_unknown"} :
        Send("get_computation_status", computation_id, <<>>,
             get_computation_status(computation_id, TimedOut).requests)

\* the call returns what the client makes of the answer
Return(answer) ==
    /\ call' = [op |-> call.op, arg |-> call.arg, returned |-> TRUE,
                answer |-> answer, result |-> HandleAnswer(answer)]
    /\ UNCHANGED <<Vault, made, checked, wire>>

\* the computation_id the request in flight is about
RequestedId ==
    LET request == wire[Len(wire)].request
    IN  IF request.method = "POST" THEN request.body.computation_id
        ELSE call.arg

\* the connection fails before any response
ConnectFails ==
    /\ InFlight
    /\ call.stage = "sending"
    /\ ~Expired(call.stage, call.elapsed)
    /\ Return([kind |-> "error", why |-> "connect"])

\* the status line and the headers of the response arrive: the client goes on
\* to read the body (text() or json())
ResponseArrives ==
    /\ InFlight
    /\ call.stage = "sending"
    /\ ~Expired(call.stage, call.elapsed)
    /\ \E status \in Statuses :
        call' = [call EXCEPT !.stage = "reading_body",
                             !.answer = Response(status, NotJson)]
    /\ UNCHANGED <<Vault, made, checked, wire>>

\* the body of the response arrives
BodyArrives ==
    /\ InFlight
    /\ call.stage = "reading_body"
    /\ ~Expired(call.stage, call.elapsed)
    /\ \E body \in (IF IsSuccess(call.answer.status)
                    THEN Bodies(RequestedId)
                    ELSE ErrorBodies(RequestedId)) :
        Return(Response(call.answer.status, body))

\* time passes while the call is in flight
Tick ==
    /\ InFlight
    /\ call.elapsed < TimeoutSecs
    /\ call' = [call EXCEPT !.elapsed = @ + TickSecs]
    /\ UNCHANGED <<Vault, made, checked, wire>>

\* the deadline passes: send(), text() or json() ends with a timeout error
TimeOut ==
    /\ InFlight
    /\ Expired(call.stage, call.elapsed)
    /\ Return(TimedOut)

NextTimed ==
    \/ SendQueuePaymentSettlement
    \/ SendQueuePayrollSettlement
    \/ SendGetComputationStatus
    \/ ConnectFails
    \/ ResponseArrives
    \/ BodyArrives
    \/ Tick
    \/ TimeOut

\* the clock runs and the timer fires; nothing makes the cluster answer
SpecTimed ==
    Init /\ [][NextTimed]_vars /\ WF_vars(Tick) /\ WF_vars(TimeOut)

\* ------------------------------------------------------------------------
\* Properties.

\* this step ran instruction op
Ran(op) == nops' = nops + 1 /\ last'.op = op

Ledger == <<vault, payments, batches, balances>>

Has(steps, name) == \E i \in 1 .. Len(steps) : steps[i] = name

\* name1 is among steps, before every occurrence of name2
Before(steps, name1, name2) ==
    \A j \in 1 .. Len(steps) :
        steps[j] = name2 => \E i \in 1 .. j - 1 : steps[i] = name1

\* C1: for every payment_id at most one process_payment succeeds: an invocation
\* with a payment_id that has no record creates the record when it succeeds, one
\* with a payment_id that has a record fails as a duplicate and leaves the record
\* alone, and a record is never removed.
C1_AtMostOneSuccessPerPaymentId ==
    [][\A pid \in PaymentIds :
        /\ payments[pid].exists => payments'[pid].exists
        /\ (Ran("process_payment") /\ last'.id = pid) =>
              IF payments[pid].exists
              THEN /\ ~last'.ok
                   /\ last'.err = "AccountAlreadyInUse"
                   /\ payments'[pid] = payments[pid]
              ELSE last'.ok => payments'[pid].exists]_vars

C1_Witness ==
    /\ last.op = "process_payment"
    /\ last.err = "AccountAlreadyInUse"
    /\ payments[last.id].exists

\* C2: fee_basis_points of VaultConfig is at most 1000 in every reachable state.
C2_FeeAtMostMax == vault.fee_basis_points <= MaxFeeBasisPoints

\* C3: with a stored fee_basis_points of at most 1000, a process_payment that got
\* to its handler computes fee = floor(amount * fee_basis_points / 10000), that is
\* fee * 10000 <= amount * fee_basis_points < (fee + 1) * 10000, and
\* net = amount - fee with net + fee = amount and fee <= amount, and neither
\* computation aborts, for every amount up to u64::MAX.
C3_FeeIsFloorAndNeverAborts ==
    (/\ last.op = "process_payment"
     /\ last.at \notin {"load_vault_config", "init_payment_record"}
     /\ vault.fee_basis_points <= MaxFeeBasisPoints)
    => /\ last.fee.some
       /\ last.net.some
       /\ last.at \notin {"fee", "net"}
       /\ LET product == BigMulSmall(last.amount, vault.fee_basis_points)
              fee == last.fee.val
          IN  /\ BigLeq(BigMulSmall(fee, FeeDenominator), product)
              /\ BigLt(product, BigMulSmall(BigAdd(fee, One), FeeDenominator))
              /\ BigLeq(fee, last.amount)
              /\ BigAdd(last.net.val, fee) = last.amount

C3_Witness ==
    /\ last.op = "process_payment"
    /\ last.amount = U64Max
    /\ vault.fee_basis_points = MaxFeeBasisPoints
    /\ last.fee.some
    /\ last.fee.val = BigDivSmall(U64Max, 10)
    /\ last.net.some

\* C4: a process_payment that fails in one of its token transfers leaves the
\* ledger as it was (no record, the totals and every balance unchanged), and has
\* neither written the record nor updated a total before the failure; in every
\* process_payment the record write and the totals updates come after the net
\* transfer, and after the fee transfer when there is a fee.
C4_TransferFailureAborts ==
    [][Ran("process_payment") =>
        /\ last'.at \in {"transfer_net", "transfer_fee"} =>
              /\ ~last'.ok
              /\ UNCHANGED Ledger
              /\ ~payments'[last'.id].exists
              /\ ~Has(last'.steps, "write_record")
              /\ ~Has(last'.steps, "add_volume")
              /\ ~Has(last'.steps, "add_payments")
        /\ \A later \in {"write_record", "add_volume", "add_payments"} :
              /\ Before(last'.steps, "transfer_net", later)
              /\ (last'.fee.some /\ last'.fee.val # Zero) =>
                     Before(last'.steps, "transfer_fee", later)]_vars

\* the fee transfer failed after the net transfer had gone through
C4_Witness ==
    /\ last.op = "process_payment"
    /\ last.at = "transfer_fee"
    /\ last.err = "InsufficientFunds"
    /\ Len(last.cpi) = 1
    /\ ~payments[last.id].exists

ValidationSteps ==
    {"load_vault_config", "init_payment_record", "fee", "net", "add_volume",
     "add_payments"}

\* C5, as claimed: every failing process_payment leaves the ledger as it was, and
\* every validation (the overflow checks of the totals included) comes before the
\* first token transfer, so that one that fails has invoked no transfer.
C5_AllValidationBeforeFirstTransfer ==
    [][(Ran("process_payment") /\ ~last'.ok) =>
        /\ UNCHANGED Ledger
        /\ last'.at \in ValidationSteps => last'.cpi = <<>>]_vars

\* C5, amended: every failing process_payment leaves the ledger as it was. The
\* duplicate check and the fee and net computations come before the first token
\* transfer; the overflow checks of total_volume and total_payments come after
\* the transfers and the record write.
C5_FailureLeavesNoMutation ==
    [][(Ran("process_payment") /\ ~last'.ok) =>
        /\ UNCHANGED Ledger
        /\ last'.at \in {"load_vault_config", "init_payment_record", "fee", "net"}
              => /\ last'.cpi = <<>>
                 /\ ~Has(last'.steps, "write_record")
        /\ last'.at \in {"add_volume", "add_payments"}
              => /\ Has(last'.steps, "transfer_net")
                 /\ Has(last'.steps, "write_record")
                 /\ last'.cpi # <<>>]_vars

\* the total_volume check failed, after the transfers
C5_Witness ==
    /\ last.op = "process_payment"
    /\ ~last.ok
    /\ last.at = "add_volume"
    /\ last.cpi # <<>>
    /\ ~payments[last.id].exists

\* C6: update_fee and transfer_authority succeed only when the signer is the
\* stored authority (and passed its own account as authority); invoked by anyone
\* else they fail and leave VaultConfig, fee_basis_points and authority with it,
\* unchanged.
C6_OnlyAuthorityReconfigures ==
    [][(Ran("update_fee") \/ Ran("transfer_authority")) =>
        /\ last'.ok => (vault.init /\ last'.signer = vault.authority
                                   /\ last'.key = vault.authority)
        /\ last'.signer # vault.authority =>
              (~last'.ok /\ UNCHANGED Ledger)]_vars

C6_Witness ==
    /\ last.op \in {"update_fee", "transfer_authority"}
    /\ vault.init
    /\ last.signer # vault.authority
    /\ last.key = last.signer
    /\ last.err = "ConstraintHasOne"

\* C7: update_fee(n) by the authority fails with FeeTooHigh and leaves
\* fee_basis_points unchanged when n > 1000, and succeeds and sets fee_basis_points
\* to n when n <= 1000.
C7_FeeBound ==
    [][(/\ Ran("update_fee")
        /\ vault.init
        /\ last'.signer = vault.authority
        /\ last'.key = vault.authority) =>
        IF last'.arg > 1000
        THEN ~last'.ok /\ last'.err = "FeeTooHigh" /\ UNCHANGED Ledger
        ELSE last'.ok /\ vault'.fee_basis_points = last'.arg]_vars

C7_Witness ==
    /\ last.op = "update_fee"
    /\ last.arg = 1001
    /\ last.err = "FeeTooHigh"
    /\ last.signer = vault.authority

\* C8: once the vault is initialized, total_volume and total_payments never
\* decrease from a state to the next, and only a successful process_payment
\* changes them.
C8_TotalsNeverDecrease ==
    [][vault.init =>
        /\ BigLeq(vault.total_volume, vault'.total_volume)
        /\ BigLeq(vault.total_payments, vault'.total_payments)
        /\ (\/ vault'.total_volume # vault.total_volume
            \/ vault'.total_payments # vault.total_payments)
              => (last'.op = "process_payment" /\ last'.ok)]_vars

\* an initialize invoked after a payment: the totals stay
C8_Witness ==
    /\ last.op = "initialize"
    /\ vault.total_payments = One
    /\ vault.total_volume # Zero

\* C9: a successful process_payment adds the gross amount to total_volume and 1 to
\* total_payments, and its transfers are the net amount and then, when it is not 0,
\* the fee, with net + fee = amount; at 250 basis points an amount of 1,000,000
\* gives a fee of 25,000 and a net of 975,000.
C9_SuccessTotalsAndTransfers ==
    [][(Ran("process_payment") /\ last'.ok) =>
        /\ vault'.total_volume = BigAdd(vault.total_volume, last'.amount)
        /\ vault'.total_payments = BigAdd(vault.total_payments, One)
        /\ BigAdd(last'.net.val, last'.fee.val) = last'.amount
        /\ Len(last'.cpi) = (IF last'.fee.val = Zero THEN 1 ELSE 2)
        /\ last'.cpi[1].amount = last'.net.val
        /\ last'.fee.val # Zero => last'.cpi[2].amount = last'.fee.val
        /\ (last'.amount = Million /\ vault.fee_basis_points = 250) =>
              /\ last'.cpi[1].amount = BigFromNat[975000]
              /\ last'.cpi[2].amount = BigFromNat[25000]]_vars

C9_Witness ==
    /\ last.op = "process_payment"
    /\ last.ok
    /\ last.amount = Million
    /\ vault.fee_basis_points = 250
    /\ vault.total_volume = Million
    /\ vault.total_payments = One
    /\ Len(last.cpi) = 2

\* C10: a process_payment whose amount would take total_volume past u64::MAX, or
\* that would take total_payments past it, fails (a checked addition aborts the
\* instruction) and leaves the totals as they were; a successful one leaves the
\* exact sums, which are within range, so neither total ever wraps.
C10_TotalsNeverWrap ==
    [][Ran("process_payment") =>
        /\ (\/ BigLt(U64Max, BigAdd(vault.total_volume, last'.amount))
            \/ BigLt(U64Max, BigAdd(vault.total_payments, One)))
              => (~last'.ok /\ UNCHANGED Ledger)
        /\ last'.at \in {"add_volume", "add_payments"} => last'.err = "Panic"
        /\ last'.ok =>
              /\ vault'.total_volume = BigAdd(vault.total_volume, last'.amount)
              /\ vault'.total_payments = BigAdd(vault.total_payments, One)
              /\ BigLeq(vault'.total_volume, U64Max)
              /\ BigLeq(vault'.total_payments, U64Max)]_vars

\* the total_payments addition aborted, after total_volume had been added to
C10_Witness ==
    /\ last.op = "process_payment"
    /\ last.at = "add_payments"
    /\ last.err = "Panic"
    /\ Has(last.steps, "add_volume")
    /\ vault.total_payments = U64Max

\* C11: a process_payment whose quotient amount * fee_basis_points / 10000 does
\* not fit in 64 bits fails at the fee step, whatever fee_basis_points the
\* VaultConfig holds; it never goes on with a fee truncated modulo 2^64.
C11_NarrowingFails ==
    (/\ last.op = "process_payment"
     /\ last.at \notin {"load_vault_config", "init_payment_record"}
     /\ BigLt(U64Max, BigDivSmall(BigMulSmall(last.amount,
                                              vault.fee_basis_points),
                                  FeeDenominator)))
    => /\ ~last.ok
       /\ last.at = "fee"
       /\ ~last.fee.some

\* C12: a successful process_payment invokes the token transfer first for the net
\* amount, to the merchant token account, and then for the fee, to the fee token
\* account, both from the payer token account under the payer's authority; with a
\* fee of 0 the second transfer is skipped and exactly one transfer is invoked,
\* with a fee above 0 exactly two, in that order.
C12_NetThenFee ==
    (last.op = "process_payment" /\ last.ok) =>
        /\ Len(last.cpi) >= 1
        /\ last.cpi[1] = [from |-> last.token_accounts.payer,
                          to |-> last.token_accounts.merchant,
                          authority |-> last.signer,
                          amount |-> last.net.val]
        /\ IF last.fee.val = Zero
           THEN /\ Len(last.cpi) = 1
                /\ ~Has(last.steps, "transfer_fee")
           ELSE /\ Len(last.cpi) = 2
                /\ last.cpi[2] = [from |-> last.token_accounts.payer,
                                  to |-> last.token_accounts.fee,
                                  authority |-> last.signer,
                                  amount |-> last.fee.val]
                /\ Before(last.steps, "transfer_net", "transfer_fee")
                /\ Has(last.steps, "transfer_fee")

\* a payment with a fee, to a merchant account that is not the fee account, after
\* a payment whose fee was 0
C12_Witness ==
    /\ last.op = "process_payment"
    /\ last.ok
    /\ Len(last.cpi) = 2
    /\ last.cpi[1].to # last.cpi[2].to
    /\ \E pid \in PaymentIds :
        /\ pid # last.id
        /\ payments[pid].exists
        /\ payments[pid].fee = Zero

\* C13: initialize succeeds at most once: invoked on a VaultConfig that is already
\* initialized it fails, and leaves authority, fee_collector, fee_basis_points,
\* total_volume and total_payments as they were (the totals are not reset to 0);
\* it succeeds only on a VaultConfig that does not exist yet, and the VaultConfig
\* is never removed.
C13_InitializeOnce ==
    [][/\ vault.init => vault'.init
       /\ Ran("initialize") =>
             IF vault.init
             THEN /\ ~last'.ok
                  /\ last'.err = "AccountAlreadyInUse"
                  /\ vault'.authority = vault.authority
                  /\ vault'.fee_collector = vault.fee_collector
                  /\ vault'.fee_basis_points = vault.fee_basis_points
                  /\ vault'.total_volume = vault.total_volume
                  /\ vault'.total_payments = vault.total_payments
                  /\ UNCHANGED Ledger
             ELSE last'.ok /\ vault'.init]_vars

\* a second initialize, with other arguments than the stored configuration, on a
\* vault that has processed a payment
C13_Witness ==
    /\ last.op = "initialize"
    /\ last.err = "AccountAlreadyInUse"
    /\ vault.init
    /\ vault.total_payments # Zero
    /\ last.signer # vault.authority
    /\ last.arg # vault.fee_basis_points

\* C14: for every batch_id at most one process_payroll_batch succeeds: an
\* invocation with a batch_id that has no record creates the record, one with a
\* batch_id that has a record fails as a duplicate and leaves the record alone,
\* and a record is never removed.
C14_AtMostOneSuccessPerBatchId ==
    [][\A bid \in BatchIds :
        /\ batches[bid].exists => batches'[bid].exists
        /\ (Ran("process_payroll_batch") /\ last'.id = bid) =>
              IF batches[bid].exists
              THEN /\ ~last'.ok
                   /\ last'.err = "AccountAlreadyInUse"
                   /\ last'.at = "init_batch_record"
                   /\ batches'[bid] = batches[bid]
              ELSE /\ last'.ok
                   /\ batches'[bid].exists
                   /\ batches'[bid].company = last'.signer]_vars

\* a second batch with the same batch_id, from another company
C14_Witness ==
    /\ last.op = "process_payroll_batch"
    /\ last.err = "AccountAlreadyInUse"
    /\ batches[last.id].exists
    /\ batches[last.id].company # last.signer

\* C15: once a PaymentRecord or a BatchRecord exists, no instruction, successful
\* or failing, changes any of its fields; a later update_fee leaves the fee
\* stored in the PaymentRecords as it was.
C15_RecordsImmutable ==
    [][/\ \A pid \in PaymentIds :
            payments[pid].exists => payments'[pid] = payments[pid]
       /\ \A bid \in BatchIds :
            batches[bid].exists => batches'[bid] = batches[bid]]_vars

\* the fee was raised from 250 to 1000 basis points after a payment of 1,000,000:
\* its record still holds the fee of 25,000
C15_Witness ==
    /\ last.op = "update_fee"
    /\ last.ok
    /\ vault.fee_basis_points = 1000
    /\ \E pid \in PaymentIds :
        /\ payments[pid].exists
        /\ payments[pid].amount = Million
        /\ payments[pid].fee = BigFromNat[25000]

\* C16: encrypt_amount succeeds for every amount, master key, user identity and
\* nonce drawn, and decrypt_amount of the ciphertext and the nonce it returned,
\* with the same master key and user identity, returns the amount.
C16_RoundTrip ==
    /\ made.op = "encrypt_amount" =>
          /\ made.result.ok
          /\ Len(made.result.val.nonce) = NONCE_SIZE
          /\ CiphertextLen(made.result.val.ciphertext) = 8 + TAG_SIZE
    /\ (/\ made.op = "encrypt_amount"
        /\ checked.op = "decrypt_amount"
        /\ checked.ciphertext = made.result.val.ciphertext
        /\ checked.nonce = made.result.val.nonce
        /\ checked.master_key = made.master_key
        /\ checked.user_pubkey = made.user_pubkey)
       => checked.result = Ok(made.amount)

\* u64::MAX sealed with a nonce that is not all zeros, and opened again
C16_Witness ==
    /\ made.op = "encrypt_amount"
    /\ made.amount = U64Max
    /\ made.result.val.nonce # Zeros(NONCE_SIZE)
    /\ checked.op = "decrypt_amount"
    /\ checked.ciphertext = made.result.val.ciphertext
    /\ checked.nonce = made.result.val.nonce
    /\ checked.master_key = made.master_key
    /\ checked.user_pubkey = made.user_pubkey
    /\ checked.result.ok
    /\ checked.result.val = U64Max

\* C17: verify_commitment(amount', b', c) is true exactly when c is the
\* commitment recomputed from amount' and b'; for the commitment made from
\* (amount, b) it is true with amount and b, and false with b and any other
\* amount.
C17_CommitmentBinding ==
    checked.op = "verify_commitment" =>
        /\ checked.result =
              (checked.commitment =
                  HexEncode(Sha256Digest(ToLeBytes(checked.amount) \o
                                         checked.blinding_factor)))
        /\ (/\ made.op = "generate_commitment"
            /\ checked.commitment = made.result
            /\ checked.blinding_factor = made.blinding_factor)
           => (checked.result = (checked.amount = made.amount))

\* 2^32 + 1 checked against the commitment to 1: rejected
C17_Witness ==
    /\ made.op = "generate_commitment"
    /\ made.amount = One
    /\ Len(made.result) = 64
    /\ checked.op = "verify_commitment"
    /\ checked.commitment = made.result
    /\ checked.blinding_factor = made.blinding_factor
    /\ checked.amount = BigAdd(TwoTo32, One)
    /\ checked.result = FALSE

\* the ciphertext and the nonce are what encrypt_amount gives for this amount
\* under this master key and user identity
Unmodified(ciphertext, nonce, master_key, user_pubkey, amount) ==
    /\ Len(nonce) = NONCE_SIZE
    /\ LET sealed == encrypt_amount(amount, master_key, user_pubkey, nonce)
       IN  sealed.ok /\ sealed.val.ciphertext = ciphertext

\* C18: decrypt_amount returns an amount only for a ciphertext and nonce that
\* encrypt_amount gives for that amount under the same master key and user
\* identity; with a bit of the ciphertext or of the nonce flipped, a nonce that is
\* not 12 bytes, another master key or user identity, or a plaintext that is not
\* 8 bytes, it returns DecryptionError.
C18_NeverWrongAmount ==
    checked.op = "decrypt_amount" =>
        IF checked.result.ok
        THEN Unmodified(checked.ciphertext, checked.nonce, checked.master_key,
                        checked.user_pubkey, checked.result.val)
        ELSE /\ checked.result.err = "DecryptionError"
             /\ \A amount \in CodecAmounts :
                    ~Unmodified(checked.ciphertext, checked.nonce,
                                checked.master_key, checked.user_pubkey,
                                amount)

\* the ciphertext made, opened with the nonce made and the other user's identity
C18_Witness ==
    /\ made.op = "encrypt_amount"
    /\ checked.op = "decrypt_amount"
    /\ checked.ciphertext = made.result.val.ciphertext
    /\ checked.nonce = made.result.val.nonce
    /\ checked.master_key = made.master_key
    /\ checked.user_pubkey # made.user_pubkey
    /\ checked.result = Err("DecryptionError")

Posts == {i \in 1 .. Len(wire) : wire[i].request.method = "POST"}

\* C19: any two queue_payment_settlement or queue_payroll_settlement calls, with
\* identical params too, submit distinct computation_ids: every call submits its
\* own job, one made after a failed submission included, so that one payment can
\* have several jobs.
C19_DistinctComputationIds ==
    \A i \in Posts, j \in Posts :
        i # j =>
            wire[i].request.body.computation_id #
                wire[j].request.body.computation_id

\* the same payment submitted again after the cluster had answered 503: two jobs
C19_Witness ==
    /\ Len(wire) = 2
    /\ wire[1].request.method = "POST"
    /\ wire[2].request.method = "POST"
    /\ wire[1].answer.kind = "response"
    /\ wire[1].answer.status = 503
    /\ wire[1].request.body.params = wire[2].request.body.params
    /\ wire[1].request.body.computation_type = "payment_settlement"
    /\ wire[2].request.body.computation_type = "payment_settlement"
    /\ wire[1].request.body.computation_id # wire[2].request.body.computation_id

\* C20: every MpcClient call sends exactly one request; it returns MpcError when
\* the transport fails or the status is not 2xx (and when the body of a 2xx
\* response does not parse), and the parsed ComputationResponse otherwise.
C20_OneRequestMpcError ==
    [][(call' # call \/ wire' # wire) =>
        /\ Len(wire') = Len(wire) + 1
        /\ wire'[Len(wire')].answer = call'.answer
        /\ LET answer == call'.answer
               parsed == /\ answer.kind = "response"
                         /\ answer.body.json
                         /\ {"computation_id", "status"} \subseteq
                                DOMAIN answer.body.fields
           IN  IF /\ answer.kind = "response"
                  /\ answer.status \in 200 .. 299
                  /\ parsed
               THEN call'.result =
                        Ok([computation_id |->
                                answer.body.fields.computation_id,
                            status |-> answer.body.fields.status])
               ELSE call'.result = Err("MpcError")]_vars

\* a 2xx answer whose body lacks the status field: MpcError, after one request
C20_Witness ==
    /\ call.op = "queue_payment_settlement"
    /\ call.answer.kind = "response"
    /\ call.answer.status = 200
    /\ call.answer.body.json
    /\ "status" \notin DOMAIN call.answer.body.fields
    /\ call.result = Err("MpcError")
    /\ Len(wire) = 1

\* the sum of the amounts of the PaymentRecords with the identifiers in ids
RECURSIVE SumOfAmounts(_)
SumOfAmounts(ids) ==
    IF ids = {} THEN Zero
    ELSE LET pid == CHOOSE p \in ids : TRUE
         IN  BigAdd(payments[pid].amount, SumOfAmounts(ids \ {pid}))

Recorded == {pid \in PaymentIds : payments[pid].exists}

\* C22: in every reachable state total_payments is the number of PaymentRecords
\* that exist and total_volume is the sum of their amounts.
C22_TotalsMatchRecords ==
    /\ vault.total_payments = BigFromNat[Cardinality(Recorded)]
    /\ vault.total_volume = SumOfAmounts(Recorded)

\* two payments of different amounts recorded
C22_Witness ==
    /\ Cardinality(Recorded) = 2
    /\ \E p \in Recorded, q \in Recorded : payments[p].amount # payments[q].amount
    /\ vault.total_payments = BigFromNat[2]
    /\ vault.total_volume # Zero

\* C23: in a successful process_payment the net amount is credited to a token
\* account that belongs to the merchant named in the PaymentRecord, and a fee
\* above 0 to a token account that belongs to the fee_collector of VaultConfig.
C23_DestinationsBelong ==
    (last.op = "process_payment" /\ last.ok) =>
        /\ TokenOwner(last.cpi[1].to) = payments[last.id].merchant
        /\ last.fee.val # Zero =>
              TokenOwner(last.cpi[2].to) = vault.fee_collector

\* C24: a successful transfer_authority(new_authority) makes new_authority the
\* authority; in every state the stored authority alone reconfigures the vault:
\* an update_fee (within the bound) or a transfer_authority it signs succeeds,
\* one signed by anyone else, the authority before a handover included, fails and
\* changes nothing.
C24_AuthorityHandover ==
    [][/\ (Ran("transfer_authority") /\ last'.ok) =>
              /\ vault'.authority = last'.arg
              /\ last'.signer = vault.authority
       /\ ((Ran("update_fee") \/ Ran("transfer_authority")) /\ vault.init) =>
              /\ last'.signer # vault.authority =>
                    (~last'.ok /\ vault' = vault)
              /\ (/\ last'.signer = vault.authority
                  /\ last'.key = last'.signer
                  /\ (last'.op = "update_fee" =>
                          last'.arg <= MaxFeeBasisPoints))
                    => last'.ok
       /\ (/\ last.op = "transfer_authority"
           /\ last.ok
           /\ last.signer # last.arg
           /\ (Ran("update_fee") \/ Ran("transfer_authority"))
           /\ last'.signer = last.signer) => ~last'.ok]_vars

\* the authority handed over to another principal
C24_Witness ==
    /\ last.op = "transfer_authority"
    /\ last.ok
    /\ last.signer # last.arg
    /\ vault.authority = last.arg

\* C25: process_payroll_batch changes nothing but the BatchRecord of its
\* batch_id: it invokes no token transfer and leaves the balances, VaultConfig
\* and the PaymentRecords as they were, whatever total_amount and payment_count
\* are; the record it creates holds its arguments.
C25_PayrollBatchFrame ==
    [][Ran("process_payroll_batch") =>
        /\ last'.cpi = <<>>
        /\ balances' = balances
        /\ vault' = vault
        /\ payments' = payments
        /\ \A bid \in BatchIds : bid # last'.id => batches'[bid] = batches[bid]
        /\ last'.ok =>
              /\ batches'[last'.id].total_amount = last'.amount
              /\ batches'[last'.id].payment_count = last'.arg
              /\ batches'[last'.id].company = last'.signer]_vars

\* a batch of u64::MAX in no payments recorded on a vault that has taken a payment
C25_Witness ==
    /\ last.op = "process_payroll_batch"
    /\ last.ok
    /\ batches[last.id].total_amount = U64Max
    /\ batches[last.id].payment_count = 0
    /\ vault.total_payments = One
    /\ vault.total_volume # U64Max

\* C26: the computation_id that a successful queue_payment_settlement or
\* queue_payroll_settlement returns is the one it generated and sent.
C26_ReturnsSubmittedId ==
    (/\ call.op \in {"queue_payment_settlement", "queue_payroll_settlement"}
     /\ call.result.ok)
    => call.result.val.computation_id =
           wire[Len(wire)].request.body.computation_id

\* C27: the commitment that encrypt_amount returns verifies for its amount under
\* the nonce it returns, and so it does for the amount that decrypt_amount
\* recovers from the ciphertext it returns: a verify_commitment of the amount,
\* the returned nonce and the returned commitment is true.
C27_CommitmentOfEncryptAmount ==
    made.op = "encrypt_amount" =>
        /\ (/\ checked.op = "verify_commitment"
            /\ checked.amount = made.amount
            /\ checked.blinding_factor = made.result.val.nonce
            /\ checked.commitment = made.result.val.commitment)
           => checked.result = TRUE
        /\ (/\ checked.op = "decrypt_amount"
            /\ checked.ciphertext = made.result.val.ciphertext
            /\ checked.nonce = made.result.val.nonce
            /\ checked.master_key = made.master_key
            /\ checked.user_pubkey = made.user_pubkey)
           => /\ checked.result.ok
              /\ verify_commitment(checked.result.val, made.result.val.nonce,
                                   made.result.val.commitment)

\* the commitment of an encrypted 2^32 + 1, made with a nonce that is not all
\* zeros, verified
C27_Witness ==
    /\ made.op = "encrypt_amount"
    /\ made.amount = BigAdd(TwoTo32, One)
    /\ made.result.val.nonce # Zeros(NONCE_SIZE)
    /\ checked.op = "verify_commitment"
    /\ checked.amount = made.amount
    /\ checked.blinding_factor = made.result.val.nonce
    /\ checked.commitment = made.result.val.commitment
    /\ checked.result = TRUE

\* C21: every MpcClient call that is in flight eventually returns to its caller,
\* whether the cluster answers or not; one that got no answer within the timeout
\* returns MpcError.
C21_CallsReturn ==
    /\ InFlight ~> (call.op # "none" /\ call.returned)
    /\ [](call.op # "none" /\ call.returned /\ call.answer = TimedOut
            => call.result = Err("MpcError"))

\* a queue_payment_settlement that got no answer returned MpcError on the
\* timeout
C21_Witness ==
    /\ call.op = "queue_payment_settlement"
    /\ call.returned
    /\ call.answer = TimedOut
    /\ call.result = Err("MpcError")
    /\ Len(wire) = 1

====
